---- MODULE Spec2Model ----
(***************************************************************************)
(* A model of gdm::mat4 (src/gdm/src/mat4.h): the 4x4 matrix value type,   *)
(* its determinant, product, inverse, transpose and the translate, rotate  *)
(* and scale builders.                                                      *)
(*                                                                          *)
(* A float is modelled as an exact rational <<n, d>> in lowest terms with   *)
(* d > 0; <<1, 0>> stands for a non-finite value (the result of a division  *)
(* by zero and everything computed from it).  Rounding is not modelled:     *)
(* every statement below is a statement of exact arithmetic.                *)
(***************************************************************************)
EXTENDS Integers, Sequences, FiniteSets, TLC

(***************************************************************************)
(* float                                                                    *)
(***************************************************************************)
RECURSIVE GCD(_, _)
GCD(a, b) == IF b = 0 THEN a ELSE GCD(b, a % b)

IAbs(n) == IF n < 0 THEN 0 - n ELSE n

NonFinite == <<1, 0>>

IsFinite(a) == a[2] # 0

Norm(n, d) ==
    IF d = 0 THEN NonFinite
    ELSE LET g == GCD(IAbs(n), IAbs(d))
             s == IF d < 0 THEN 0 - 1 ELSE 1
         IN  <<(s * n) \div g, (s * d) \div g>>

Flt(n) == <<n, 1>>

Zero == <<0, 1>>

One == <<1, 1>>

\* a + b
Add(a, b) ==
    IF a[2] = 0 \/ b[2] = 0 THEN NonFinite
    ELSE LET g == GCD(a[2], b[2])
         IN  Norm(a[1] * (b[2] \div g) + b[1] * (a[2] \div g), (a[2] \div g) * b[2])

\* -a
Neg(a) == IF a[2] = 0 THEN NonFinite ELSE <<0 - a[1], a[2]>>

\* a - b
Sub(a, b) == Add(a, Neg(b))

\* a * b
Mul(a, b) ==
    IF a[2] = 0 \/ b[2] = 0 THEN NonFinite
    ELSE LET g1 == GCD(IAbs(a[1]), b[2])
             g2 == GCD(IAbs(b[1]), a[2])
         IN  <<(a[1] \div g1) * (b[1] \div g2), (a[2] \div g2) * (b[2] \div g1)>>

\* a / b; a division by zero gives a non-finite value
Div(a, b) ==
    IF a[2] = 0 \/ b[2] = 0 \/ b[1] = 0 THEN NonFinite
    ELSE Mul(a, IF b[1] < 0 THEN <<0 - b[2], 0 - b[1]>> ELSE <<b[2], b[1]>>)

\* std::abs
abs(a) == IF a[2] = 0 THEN NonFinite ELSE <<IAbs(a[1]), a[2]>>

\* n1/d1 <= n2/d2 for d1, d2 > 0, by comparing the continued fractions
RECURSIVE FracLessEq(_, _, _, _)
FracLessEq(n1, d1, n2, d2) ==
    LET q1 == n1 \div d1
        q2 == n2 \div d2
        r1 == n1 % d1
        r2 == n2 % d2
    IN  IF q1 # q2 THEN q1 < q2
        ELSE IF r1 = 0 THEN TRUE
        ELSE IF r2 = 0 THEN FALSE
        ELSE FracLessEq(d2, r2, d1, r1)

\* a <= b; false when either side is not finite (as for a NaN)
LessEq(a, b) == a[2] # 0 /\ b[2] # 0 /\ FracLessEq(a[1], a[2], b[1], b[2])

(***************************************************************************)
(* vec3, vec4                                                               *)
(***************************************************************************)
vec3(x, y, z) == [x |-> x, y |-> y, z |-> z]

vec4(x, y, z, w) == [x |-> x, y |-> y, z |-> z, w |-> w]

\* operator+(vec3, vec3)
v3add(p, q) == vec3(Add(p.x, q.x), Add(p.y, q.y), Add(p.z, q.z))

\* operator-(vec3, vec3)
v3sub(p, q) == vec3(Sub(p.x, q.x), Sub(p.y, q.y), Sub(p.z, q.z))

\* operator*(vec3, float), operator*=(float)
v3mul(p, f) == vec3(Mul(p.x, f), Mul(p.y, f), Mul(p.z, f))

dot(p, q) == Add(Add(Mul(p.x, q.x), Mul(p.y, q.y)), Mul(p.z, q.z))

cross(p, q) ==
    vec3(Sub(Mul(p.y, q.z), Mul(p.z, q.y)),
         Sub(Mul(p.z, q.x), Mul(p.x, q.z)),
         Sub(Mul(p.x, q.y), Mul(p.y, q.x)))

(***************************************************************************)
(* mat4                                                                     *)
(***************************************************************************)
Idx == 0 .. 3

\* mat4(m00, ..., m33): the 16 scalars in row-major order
mat4(m00, m01, m02, m03, m10, m11, m12, m13, m20, m21, m22, m23, m30, m31, m32, m33) ==
    [i \in Idx |->
        IF i = 0 THEN [j \in Idx |-> IF j = 0 THEN m00 ELSE IF j = 1 THEN m01
                                     ELSE IF j = 2 THEN m02 ELSE m03]
        ELSE IF i = 1 THEN [j \in Idx |-> IF j = 0 THEN m10 ELSE IF j = 1 THEN m11
                                          ELSE IF j = 2 THEN m12 ELSE m13]
        ELSE IF i = 2 THEN [j \in Idx |-> IF j = 0 THEN m20 ELSE IF j = 1 THEN m21
                                          ELSE IF j = 2 THEN m22 ELSE m23]
        ELSE [j \in Idx |-> IF j = 0 THEN m30 ELSE IF j = 1 THEN m31
                            ELSE IF j = 2 THEN m32 ELSE m33]]

\* mat4(row1, row2, row3, row4)
mat4Rows(row1, row2, row3, row4) ==
    mat4(row1.x, row1.y, row1.z, row1.w,
         row2.x, row2.y, row2.z, row2.w,
         row3.x, row3.y, row3.z, row3.w,
         row4.x, row4.y, row4.z, row4.w)

\* mat4(scalar)
mat4Scalar(scalar) ==
    mat4(scalar, Zero, Zero, Zero,
         Zero, scalar, Zero, Zero,
         Zero, Zero, scalar, Zero,
         Zero, Zero, Zero, scalar)

\* mat4()
mat4Identity == mat4Scalar(One)

GetRow(m, index) == vec4(m[index][0], m[index][1], m[index][2], m[index][3])

\* determinant with the sign of the a4 * b1 term slipped
determinant_signSlip(m) ==
    LET a0 == Sub(Mul(m[0][0], m[1][1]), Mul(m[0][1], m[1][0]))
        a1 == Sub(Mul(m[0][0], m[1][2]), Mul(m[0][2], m[1][0]))
        a2 == Sub(Mul(m[0][0], m[1][3]), Mul(m[0][3], m[1][0]))
        a3 == Sub(Mul(m[0][1], m[1][2]), Mul(m[0][2], m[1][1]))
        a4 == Sub(Mul(m[0][1], m[1][3]), Mul(m[0][3], m[1][1]))
        a5 == Sub(Mul(m[0][2], m[1][3]), Mul(m[0][3], m[1][2]))
        b0 == Sub(Mul(m[2][0], m[3][1]), Mul(m[2][1], m[3][0]))
        b1 == Sub(Mul(m[2][0], m[3][2]), Mul(m[2][2], m[3][0]))
        b2 == Sub(Mul(m[2][0], m[3][3]), Mul(m[2][3], m[3][0]))
        b3 == Sub(Mul(m[2][1], m[3][2]), Mul(m[2][2], m[3][1]))
        b4 == Sub(Mul(m[2][1], m[3][3]), Mul(m[2][3], m[3][1]))
        b5 == Sub(Mul(m[2][2], m[3][3]), Mul(m[2][3], m[3][2]))
    IN  Add(Add(Add(Add(Sub(Mul(a0, b5), Mul(a1, b4)), Mul(a2, b3)),
                    Mul(a3, b2)), Mul(a4, b1)), Mul(a5, b0))

determinant(m) ==
    LET a0 == Sub(Mul(m[0][0], m[1][1]), Mul(m[0][1], m[1][0]))
        a1 == Sub(Mul(m[0][0], m[1][2]), Mul(m[0][2], m[1][0]))
        a2 == Sub(Mul(m[0][0], m[1][3]), Mul(m[0][3], m[1][0]))
        a3 == Sub(Mul(m[0][1], m[1][2]), Mul(m[0][2], m[1][1]))
        a4 == Sub(Mul(m[0][1], m[1][3]), Mul(m[0][3], m[1][1]))
        a5 == Sub(Mul(m[0][2], m[1][3]), Mul(m[0][3], m[1][2]))
        b0 == Sub(Mul(m[2][0], m[3][1]), Mul(m[2][1], m[3][0]))
        b1 == Sub(Mul(m[2][0], m[3][2]), Mul(m[2][2], m[3][0]))
        b2 == Sub(Mul(m[2][0], m[3][3]), Mul(m[2][3], m[3][0]))
        b3 == Sub(Mul(m[2][1], m[3][2]), Mul(m[2][2], m[3][1]))
        b4 == Sub(Mul(m[2][1], m[3][3]), Mul(m[2][3], m[3][1]))
        b5 == Sub(Mul(m[2][2], m[3][3]), Mul(m[2][3], m[3][2]))
    IN  Add(Sub(Add(Add(Sub(Mul(a0, b5), Mul(a1, b4)), Mul(a2, b3)),
                    Mul(a3, b2)), Mul(a4, b1)), Mul(a5, b0))


\* operator* storing each sum at p[row + col * 4]
operatorMulMat_transposedStore(mat1, mat2) ==
    LET sum(row, col) ==
            Add(Add(Add(Add(Zero, Mul(mat1[row][0], mat2[0][col])),
                        Mul(mat1[row][1], mat2[1][col])),
                    Mul(mat1[row][2], mat2[2][col])),
                Mul(mat1[row][3], mat2[3][col]))
        p == [k \in 0 .. 15 |-> sum(k % 4, k \div 4)]
    IN  mat4(p[0], p[1], p[2], p[3],
             p[4], p[5], p[6], p[7],
             p[8], p[9], p[10], p[11],
             p[12], p[13], p[14], p[15])

\* operator*(const mat4&, const mat4&)
operatorMulMat(mat1, mat2) ==
    LET sum(row, col) ==
            Add(Add(Add(Add(Zero, Mul(mat1[row][0], mat2[0][col])),
                        Mul(mat1[row][1], mat2[1][col])),
                    Mul(mat1[row][2], mat2[2][col])),
                Mul(mat1[row][3], mat2[3][col]))
        \* p[col + row * 4] = sum
        p == [k \in 0 .. 15 |-> sum(k \div 4, k % 4)]
    IN  mat4(p[0], p[1], p[2], p[3],
             p[4], p[5], p[6], p[7],
             p[8], p[9], p[10], p[11],
             p[12], p[13], p[14], p[15])

\* operator*(const mat4&, const vec4&)
operatorMulVec(m, vec) ==
    vec4(Add(Add(Add(Mul(m[0][0], vec.x), Mul(m[0][1], vec.y)), Mul(m[0][2], vec.z)), Mul(m[0][3], vec.w)),
         Add(Add(Add(Mul(m[1][0], vec.x), Mul(m[1][1], vec.y)), Mul(m[1][2], vec.z)), Mul(m[1][3], vec.w)),
         Add(Add(Add(Mul(m[2][0], vec.x), Mul(m[2][1], vec.y)), Mul(m[2][2], vec.z)), Mul(m[2][3], vec.w)),
         Add(Add(Add(Mul(m[3][0], vec.x), Mul(m[3][1], vec.y)), Mul(m[3][2], vec.z)), Mul(m[3][3], vec.w)))

\* The tolerance of mathbase.h
TOLERANCE == <<1, 10000>>

canBeInverse(m) == ~ LessEq(abs(determinant(m)), TOLERANCE)

\* The guard of inverse without std::abs
inverseSingular_noAbs(m) == LessEq(determinant(m), TOLERANCE)

\* The guard of inverse: the determinant is close to zero
inverseSingular(m) == LessEq(abs(determinant(m)), TOLERANCE)

\* a, b, c, d, x, y, z, w and s, t, u, v of inverse
inverseParts(m) ==
    LET a == vec3(m[0][0], m[1][0], m[2][0])
        b == vec3(m[0][1], m[1][1], m[2][1])
        c == vec3(m[0][2], m[1][2], m[2][2])
        d == vec3(m[0][3], m[1][3], m[2][3])
        x == m[3][0]
        y == m[3][1]
        z == m[3][2]
        w == m[3][3]
    IN  [a |-> a, b |-> b, c |-> c, d |-> d, x |-> x, y |-> y, z |-> z, w |-> w,
         s |-> cross(a, b),
         t |-> cross(c, d),
         u |-> v3sub(v3mul(a, y), v3mul(b, x)),
         v |-> v3sub(v3mul(c, w), v3mul(d, z))]

\* The divisor with u and v exchanged
inverseDivisor_swapped(m) ==
    LET q == inverseParts(m)
    IN  Add(dot(q.s, q.u), dot(q.t, q.v))

\* dot(s, v) + dot(t, u), the divisor of invDet
inverseDivisor(m) ==
    LET q == inverseParts(m)
    IN  Add(dot(q.s, q.v), dot(q.t, q.u))

\* inverse with the sign of the last column of row 0 slipped
inverse_signSlip(m) ==
    IF inverseSingular(m) THEN mat4Identity
    ELSE
    LET q == inverseParts(m)
        invDet == Div(One, inverseDivisor(m))
        s == v3mul(q.s, invDet)
        t == v3mul(q.t, invDet)
        u == v3mul(q.u, invDet)
        v == v3mul(q.v, invDet)
        r0 == v3add(cross(q.b, v), v3mul(t, q.y))
        r1 == v3sub(cross(v, q.a), v3mul(t, q.x))
        r2 == v3add(cross(q.d, u), v3mul(s, q.w))
        r3 == v3sub(cross(u, q.c), v3mul(s, q.z))
    IN  mat4(r0.x, r0.y, r0.z, dot(q.b, t),
             r1.x, r1.y, r1.z, dot(q.a, t),
             r2.x, r2.y, r2.z, Neg(dot(q.d, s)),
             r3.x, r3.y, r3.z, dot(q.c, s))

inverse(m) ==
    IF inverseSingular(m) THEN mat4Identity
    ELSE
    LET q == inverseParts(m)
        invDet == Div(One, inverseDivisor(m))
        s == v3mul(q.s, invDet)
        t == v3mul(q.t, invDet)
        u == v3mul(q.u, invDet)
        v == v3mul(q.v, invDet)
        r0 == v3add(cross(q.b, v), v3mul(t, q.y))
        r1 == v3sub(cross(v, q.a), v3mul(t, q.x))
        r2 == v3add(cross(q.d, u), v3mul(s, q.w))
        r3 == v3sub(cross(u, q.c), v3mul(s, q.z))
    IN  mat4(r0.x, r0.y, r0.z, Neg(dot(q.b, t)),
             r1.x, r1.y, r1.z, dot(q.a, t),
             r2.x, r2.y, r2.z, Neg(dot(q.d, s)),
             r3.x, r3.y, r3.z, dot(q.c, s))

transpose(m) ==
    mat4Rows(vec4(m[0][0], m[1][0], m[2][0], m[3][0]),
             vec4(m[0][1], m[1][1], m[2][1], m[3][1]),
             vec4(m[0][2], m[1][2], m[2][2], m[3][2]),
             vec4(m[0][3], m[1][3], m[2][3], m[3][3]))

\* translate adding translation.z to w as well
translate_touchesW(m, translation) ==
    LET row == GetRow(m, 3)
        translationRow == vec4(Add(row.x, translation.x), Add(row.y, translation.y),
                               Add(row.z, translation.z), Add(row.w, translation.z))
    IN  mat4Rows(GetRow(m, 0), GetRow(m, 1), GetRow(m, 2), translationRow)

translate(m, translation) ==
    LET row == GetRow(m, 3)
        translationRow == vec4(Add(row.x, translation.x), Add(row.y, translation.y),
                               Add(row.z, translation.z), row.w)
    IN  mat4Rows(GetRow(m, 0), GetRow(m, 1), GetRow(m, 2), translationRow)

\* The angles of the model, each with the exact value of its cosine and sine
Angles == {"0", "pi/2", "pi"}

\* std::cos
cos(angle) ==
    CASE angle = "0" -> One
      [] angle = "pi/2" -> Zero
      [] angle = "pi" -> Flt(0 - 1)

\* std::sin
sin(angle) ==
    CASE angle = "0" -> Zero
      [] angle = "pi/2" -> One
      [] angle = "pi" -> Zero

rotate(m, angle, axis) ==
    LET c == cos(angle)
        s == sin(angle)
        d == Sub(One, c)
        x == Mul(axis.x, d)
        y == Mul(axis.y, d)
        z == Mul(axis.z, d)
        axay == Mul(x, axis.y)
        axaz == Mul(x, axis.y)
        ayaz == Mul(y, axis.z)
    IN  mat4(Add(c, Mul(x, axis.x)), Sub(axay, Mul(s, axis.z)), Add(axaz, Mul(s, axis.y)), m[0][3],
             Add(axay, Mul(s, axis.z)), Add(c, Mul(y, axis.y)), Sub(ayaz, Mul(s, axis.x)), m[1][3],
             Sub(axaz, Mul(s, axis.y)), Add(ayaz, Mul(s, axis.x)), Add(c, Mul(z, axis.z)), m[2][3],
             m[3][0], m[3][1], m[3][2], m[3][3])

\* scale multiplying the whole of each row
scale_wholeRow(m, sc) ==
    mat4(Mul(m[0][0], sc.x), Mul(m[0][1], sc.x), Mul(m[0][2], sc.x), m[0][3],
         Mul(m[1][0], sc.y), Mul(m[1][1], sc.y), Mul(m[1][2], sc.y), m[1][3],
         Mul(m[2][0], sc.z), Mul(m[2][1], sc.z), Mul(m[2][2], sc.z), m[2][3],
         m[3][0], m[3][1], m[3][2], m[3][3])

scale(m, sc) ==
    mat4(Mul(m[0][0], sc.x), m[0][1], m[0][2], m[0][3],
         m[1][0], Mul(m[1][1], sc.y), m[1][2], m[1][3],
         m[2][0], m[2][1], Mul(m[2][2], sc.z), m[2][3],
         m[3][0], m[3][1], m[3][2], m[3][3])

(***************************************************************************)
(* The client of the matrix: it constructs two matrices and applies the     *)
(* operations of mat4.h to them.  Every operation takes its operands by     *)
(* const reference and returns a new value, so the operands stay as         *)
(* constructed and the state records the last operation and its result.     *)
(***************************************************************************)
\* The constructions are Seed(0) .. Seed(MaxSeed)
MaxSeed == 11

Half == <<1, 2>>

Tenth == <<1, 10>>

\* The arguments the client passes
Translations == {vec3(Flt(1), Flt(2), Flt(3)), vec3(Flt(0 - 1), Zero, Half)}

Scales == {vec3(Flt(2), Flt(3), Flt(4)), vec3(Flt(0 - 1), Half, One)}

Oblique == vec3(<<3, 5>>, Zero, <<4, 5>>)

Axes == {vec3(Zero, Zero, One), vec3(<<2, 3>>, <<1, 3>>, <<2, 3>>), Oblique}

Vectors ==
    {vec4(One, One, One, One), vec4(Flt(1), Flt(0), Flt(0), One),
     vec4(Flt(1), Flt(2), Flt(3), Zero), vec4(Flt(0 - 2), Half, Flt(1), Zero)}

\* The matrices the client constructs, with the constructors and the builders
\* A matrix that is not affine, with determinant -1
General ==
    mat4Rows(vec4(Flt(0), Flt(2), Flt(1), Flt(1)),
             vec4(Flt(2), Flt(0 - 1), Flt(0), Flt(1)),
             vec4(Flt(1), Flt(2), Flt(1), Flt(2)),
             vec4(Flt(0), Flt(0 - 1), Flt(0 - 1), Flt(0 - 1)))

\* An affine matrix: column 3 is (0, 0, 0, 1)
Affine ==
    mat4Rows(vec4(Flt(0), Flt(2), Flt(0), Flt(0)),
             vec4(Flt(1), Flt(1), Flt(0), Flt(0)),
             vec4(Flt(0), Flt(0), Flt(0 - 1), Flt(0)),
             vec4(Flt(1), Flt(0 - 2), Flt(3), Flt(1)))

\* A matrix with no zero element
Dense ==
    mat4Rows(vec4(Flt(0 - 2), Flt(1), Flt(0 - 1), Flt(1)),
             vec4(Flt(1), Flt(1), Flt(0 - 1), Flt(0 - 1)),
             vec4(Flt(0 - 2), Flt(1), Half, Flt(1)),
             vec4(Flt(0 - 1), Flt(0 - 2), Flt(3), Flt(1)))

Seed(k) ==
    CASE k = 0 -> mat4Identity
      [] k = 1 -> General
      [] k = 2 -> mat4Scalar(Zero)
      [] k = 3 -> mat4Scalar(Tenth)
      [] k = 4 -> mat4(Neg(Tenth), Zero, Zero, Zero,
                       Zero, Tenth, Zero, Zero,
                       Zero, Zero, Tenth, Zero,
                       Flt(1), Flt(1), Flt(1), Mul(Tenth, Half))
      [] k = 5 -> Affine
      [] k = 6 -> mat4Rows(vec4(Flt(1), Flt(2), Flt(3), Flt(4)),
                           vec4(Flt(2), Flt(4), Flt(6), Flt(8)),
                           vec4(Flt(1), Flt(1), Flt(2), Flt(1)),
                           vec4(Flt(3), Flt(1), Flt(1), Flt(2)))
      [] k = 7 -> Dense
      [] k = 8 -> translate(mat4Identity, vec3(Flt(1), Flt(2), Flt(3)))
      [] k = 9 -> scale(mat4Identity, vec3(Flt(2), Flt(3), Flt(4)))
      [] k = 10 -> translate(rotate(scale(mat4Identity, vec3(Flt(0 - 1), Half, One)), "pi/2", Oblique),
                             vec3(Flt(0 - 1), Zero, Half))
      [] k = 11 -> operatorMulMat(Dense, Affine)
      [] k = 12 -> transpose(rotate(General, "pi", vec3(<<2, 3>>, <<1, 3>>, <<2, 3>>)))
      [] OTHER -> mat4Scalar(Flt(k))

VARIABLES
    mat,    \* the client's matrix, the operand of every operation
    other,  \* the client's second matrix, the other operand of a product
    op,     \* the last operation
    arg,    \* its argument
    res,    \* what it returned
    aux     \* for inverse: whether it took the fallback, and its divisor

vars == <<mat, other, op, arg, res, aux>>

None == <<>>

Init ==
    \E j \in 0 .. MaxSeed, k \in 0 .. MaxSeed :
        /\ mat = Seed(j)
        /\ other = Seed(k)
        /\ op = "ctor"
        /\ arg = None
        /\ res = None
        /\ aux = None

\* The client calls an operation and keeps what it returned
Call(name, a, result, x) ==
    /\ op' = name
    /\ arg' = a
    /\ res' = result
    /\ aux' = x
    /\ UNCHANGED <<mat, other>>

Determinant == Call("determinant", None, determinant(mat), None)

CanBeInverse == Call("canBeInverse", None, canBeInverse(mat), None)

MulVec == \E v \in Vectors : Call("mulvec", v, operatorMulVec(mat, v), None)

MulMat == Call("mul", None, operatorMulMat(mat, other), None)

Inverse ==
    Call("inverse", None, inverse(mat),
         [fallback |-> inverseSingular(mat),
          divisor |-> IF inverseSingular(mat) THEN None ELSE inverseDivisor(mat)])

Transpose == Call("transpose", None, transpose(mat), None)

Translate == \E t \in Translations : Call("translate", t, translate(mat, t), None)

Rotate ==
    \E angle \in Angles, axis \in Axes :
        Call("rotate", [angle |-> angle, axis |-> axis], rotate(mat, angle, axis), None)

Scale == \E s \in Scales : Call("scale", s, scale(mat, s), None)

Next ==
    \/ Determinant
    \/ CanBeInverse
    \/ MulVec
    \/ MulMat
    \/ Inverse
    \/ Transpose
    \/ Translate
    \/ Rotate
    \/ Scale

Spec == Init /\ [][Next]_vars
(***************************************************************************)
(* Reference definitions for the properties                                 *)
(***************************************************************************)
Perms4 == {p \in [Idx -> Idx] : \A i, j \in Idx : i # j => p[i] # p[j]}

Inversions(p) == Cardinality({ij \in Idx \X Idx : ij[1] < ij[2] /\ p[ij[1]] > p[ij[2]]})

\* The signed product of the permutation p in the Leibniz expansion
LeibnizTerm(p, m) ==
    LET prod == Mul(Mul(Mul(m[0][p[0]], m[1][p[1]]), m[2][p[2]]), m[3][p[3]])
    IN  IF Inversions(p) % 2 = 0 THEN prod ELSE Neg(prod)

RECURSIVE LeibnizSum(_, _)
LeibnizSum(S, m) ==
    IF S = {} THEN Zero
    ELSE LET p == CHOOSE q \in S : TRUE
         IN  Add(LeibnizTerm(p, m), LeibnizSum(S \ {p}, m))

\* The determinant as the sum over all 24 permutations
LeibnizDeterminant(m) == LeibnizSum(Perms4, m)

\* The Rodrigues rotation matrix of a unit axis, entry (i, j)
Rodrigues(angle, axis) ==
    LET c == cos(angle)
        s == sin(angle)
        d == Sub(One, c)
        xx == Mul(Mul(axis.x, d), axis.x)
        yy == Mul(Mul(axis.y, d), axis.y)
        zz == Mul(Mul(axis.z, d), axis.z)
        xy == Mul(Mul(axis.x, d), axis.y)
        xz == Mul(Mul(axis.x, d), axis.z)
        yz == Mul(Mul(axis.y, d), axis.z)
    IN  <<<<Add(c, xx), Sub(xy, Mul(s, axis.z)), Add(xz, Mul(s, axis.y))>>,
          <<Add(xy, Mul(s, axis.z)), Add(c, yy), Sub(yz, Mul(s, axis.x))>>,
          <<Sub(xz, Mul(s, axis.y)), Add(yz, Mul(s, axis.x)), Add(c, zz)>>>>

IsUnit(axis) == dot(axis, axis) = One

\* Column 3 and row 3 both differ from those of an affine matrix
IsGeneral(m) ==
    /\ \E i \in 0 .. 2 : m[i][3] # Zero
    /\ \E j \in 0 .. 2 : m[3][j] # Zero

\* No element of m is zero
IsDense(m) == \A i, j \in Idx : m[i][j] # Zero

(***************************************************************************)
(* C1: for every matrix M with canBeInverse(M), M * inverse(M) is the       *)
(* identity matrix, for general 4x4 matrices and not only affine ones.      *)
(***************************************************************************)
C1_InverseLaw ==
    (op = "inverse" /\ canBeInverse(mat)) => operatorMulMat(mat, res) = mat4Identity

\* inverse has been applied to an invertible matrix that is not affine
C1_Witness ==
    /\ op = "inverse"
    /\ canBeInverse(mat)
    /\ IsGeneral(mat)
    /\ res # mat4Identity

(***************************************************************************)
(* C2: rotate(M, angle, axis) puts the Rodrigues rotation matrix of a unit  *)
(* axis in the upper-left 3x3 block: result(0,2) = axis.x*d*axis.z +        *)
(* s*axis.y, result(2,0) = axis.x*d*axis.z - s*axis.y, and so on.           *)
(***************************************************************************)
C2_RotateIsRodrigues ==
    (op = "rotate" /\ IsUnit(arg.axis)) =>
        \A i, j \in 0 .. 2 : res[i][j] = Rodrigues(arg.angle, arg.axis)[i + 1][j + 1]

(***************************************************************************)
(* C3: M1 * M2 applies M1 first: for every vector v, (M1 * M2) * v is       *)
(* M2 * (M1 * v).                                                           *)
(***************************************************************************)
C3_CompositionOrder ==
    op = "mul" =>
        \A v \in Vectors :
            operatorMulVec(res, v) = operatorMulVec(other, operatorMulVec(mat, v))

(***************************************************************************)
(* C4: translate(Identity, t) * (x, y, z, 1) is (x + t.x, y + t.y,          *)
(* z + t.z, 1), and translate(Identity, t) * (x, y, z, 0) is (x, y, z, 0).  *)
(***************************************************************************)
C4_AffineTranslation ==
    \A t \in Translations :
        (op = "mulvec" /\ mat = translate(mat4Identity, t)) =>
            /\ arg.w = One =>
                   res = vec4(Add(arg.x, t.x), Add(arg.y, t.y), Add(arg.z, t.z), One)
            /\ arg.w = Zero => res = arg

(***************************************************************************)
(* C5: determinant() is the exact 4x4 determinant: it equals the Leibniz    *)
(* expansion over all 24 permutations; determinant(Identity) = 1 and        *)
(* determinant(all-zero matrix) = 0.                                        *)
(***************************************************************************)
C5_DeterminantExact ==
    /\ op = "determinant" => res = LeibnizDeterminant(mat)
    /\ (op = "determinant" /\ mat = mat4Identity) => res = One
    /\ (op = "determinant" /\ mat = mat4Scalar(Zero)) => res = Zero

\* determinant has been applied to a matrix with no zero element
C5_Witness ==
    /\ op = "determinant"
    /\ IsDense(mat)
    /\ res # Zero

(***************************************************************************)
(* C6: when |determinant(M)| <= TOLERANCE, canBeInverse(M) is false and     *)
(* inverse(M) returns the identity matrix; when |determinant(M)| >          *)
(* TOLERANCE, canBeInverse(M) is true and inverse(M) does not take the      *)
(* fallback.                                                                *)
(***************************************************************************)
C6_SingularFallback ==
    /\ op = "inverse" =>
           IF LessEq(abs(determinant(mat)), TOLERANCE)
           THEN aux.fallback /\ res = mat4Identity /\ ~ canBeInverse(mat)
           ELSE ~ aux.fallback /\ canBeInverse(mat)
    /\ op = "canBeInverse" => (res <=> ~ LessEq(abs(determinant(mat)), TOLERANCE))
    /\ (op = "inverse" /\ mat = mat4Scalar(Zero)) => res = mat4Identity

\* inverse has taken the fallback for a matrix whose determinant is not zero
C6_Witness ==
    /\ op = "inverse"
    /\ aux.fallback
    /\ determinant(mat) # Zero
    /\ mat # mat4Identity

(***************************************************************************)
(* C7: M * Identity = M, Identity * M = M and Identity * v = v.             *)
(***************************************************************************)
C7_IdentityLaw ==
    /\ (op = "mul" /\ other = mat4Identity) => res = mat
    /\ (op = "mul" /\ mat = mat4Identity) => res = other
    /\ (op = "mulvec" /\ mat = mat4Identity) => res = arg

\* a matrix that is not symmetric has been multiplied by the identity
C7_Witness ==
    /\ op = "mul"
    /\ other = mat4Identity
    /\ mat # transpose(mat)

(***************************************************************************)
(* C8: translate(M, t) differs from M only in elements (3,0), (3,1), (3,2), *)
(* which grow by t.x, t.y, t.z; M is not changed; and                       *)
(* translate(translate(M, t1), t2) = translate(M, t1 + t2).                 *)
(***************************************************************************)
C8_Translate ==
    [][op' = "translate" =>
          /\ mat' = mat
          /\ \A i \in 0 .. 2 : res'[i] = mat[i]
          /\ res'[3][0] = Add(mat[3][0], arg'.x)
          /\ res'[3][1] = Add(mat[3][1], arg'.y)
          /\ res'[3][2] = Add(mat[3][2], arg'.z)
          /\ res'[3][3] = mat[3][3]
          /\ \A t2 \in Translations :
                 translate(res', t2) = translate(mat, v3add(arg', t2))]_vars

\* translate has been applied to a matrix with no zero element
C8_Witness ==
    /\ op = "translate"
    /\ IsDense(mat)
    /\ res # mat

(***************************************************************************)
(* C9: scale(M, s) equals M except that element (0,0) is multiplied by s.x, *)
(* (1,1) by s.y and (2,2) by s.z; scale(Identity, (2,3,4)) * (1,1,1,1) is   *)
(* (2,3,4,1).                                                               *)
(***************************************************************************)
C9_Scale ==
    /\ op = "scale" =>
           \A i, j \in Idx :
               res[i][j] = IF i = j /\ i = 0 THEN Mul(mat[0][0], arg.x)
                           ELSE IF i = j /\ i = 1 THEN Mul(mat[1][1], arg.y)
                           ELSE IF i = j /\ i = 2 THEN Mul(mat[2][2], arg.z)
                           ELSE mat[i][j]
    /\ (/\ op = "mulvec"
        /\ mat = scale(mat4Identity, vec3(Flt(2), Flt(3), Flt(4)))
        /\ arg = vec4(One, One, One, One)) => res = vec4(Flt(2), Flt(3), Flt(4), One)

\* scale has been applied to a matrix with no zero element
C9_Witness ==
    /\ op = "scale"
    /\ IsDense(mat)
    /\ arg = vec3(Flt(2), Flt(3), Flt(4))

====
